---------------------------- MODULE Spec2Model ----------------------------
(***************************************************************************)
(* EnsemblLite: the EMF and MAF flat-file alignment parsers and the entity *)
(* names they build (src/src/ensembl_lite/emf.py, maf.py, name.py), the    *)
(* coordinate array codec and the sqlite store mixin                       *)
(* (src/src/ensembl_cli/_db_base.py), and atomic_write                     *)
(* (src/src/ensembl_cli/util.py).                                          *)
(*                                                                         *)
(* Text is modelled at the character level: a Python str is a sequence of  *)
(* one-character strings, a file is the list of lines readlines() returns  *)
(* (each line keeps its "\n").  A Python dict is the sequence of its       *)
(* (key, value) items in insertion order.  Python indices are 0-based and  *)
(* slices half-open; Slice and Prefix convert to TLA+'s 1-based sequences. *)
(***************************************************************************)
EXTENDS Integers, Sequences, FiniteSets

VARIABLES
    parser,        \* "emf" (parse_emf) or "maf" (maf.parse): the generator in use
    data,          \* the lines of the input file, as readlines() returns them
    check_format,  \* parse_emf's check_format argument
    pc,            \* the generator's position: open, index, loop, done, failed
    blocks,        \* the (start, end) index pairs of the blocks
    next_block,    \* how many blocks the for loop has consumed
    yielded,       \* the mappings yielded so far, in order
    error          \* the exception that ended the generator, or "none"

VARIABLES
    array,         \* the int32 array handed to array_to_sqlite, or NoArray
    clock,         \* time.time() in whole seconds, as gzip's header records it
    blobs,         \* what the successive array_to_sqlite(array) calls returned
    stored,        \* the blob handed to sqlite_to_array, or NoBlob
    decoded        \* what sqlite_to_array(stored) returned or raised

VARIABLES
    source,        \* the store's source attribute: ":memory:" or a file path
    db,            \* the store's _db attribute: None or a connection
    connections,   \* every connection sqlite3.connect has made, in order
    databases,     \* the committed content of every database, in order
    history,       \* what the calls on the store have done so far
    result,        \* what the last call on the store returned or raised
    handles,       \* store objects that are compared: their classes and _db
    compared       \* the comparison of two handles that was the last call

VARIABLES
    fs,            \* the file system: its directories and its files' content
    writer,        \* the atomic_write object: _path, _tmppath, _file, succeeded
    previous,      \* the file system as it was before atomic_write was called
    wpc,           \* atomic_write's position: call, made, body, exit, ..., done
    written,       \* the chunks the body has written, in order
    raised         \* what has been raised: "none", "body" or an OSError's name

parserVars == <<parser, data, check_format, pc, blocks, next_block, yielded, error>>
codecVars == <<array, clock, blobs, stored, decoded>>
storeVars == <<source, db, connections, databases, history, result, handles, compared>>
writeVars == <<fs, writer, previous, wpc, written, raised>>
vars == <<parserVars, codecVars, storeVars, writeVars>>

\* Each component runs on its own; the others stay idle.
NoArray == [shape |-> <<>>, flat |-> <<>>]
NoBlob == [magic |-> <<>>]
NotCalled == [err |-> "not called", value |-> <<>>]
\* Python's None
NoneValue == [tag |-> "None", val |-> 0]

ParserIdle ==
    /\ parser = "none"
    /\ data = <<>>
    /\ check_format = FALSE
    /\ pc = "idle"
    /\ blocks = <<>>
    /\ next_block = 0
    /\ yielded = <<>>
    /\ error = "none"

CodecIdle ==
    /\ array = NoArray
    /\ clock = 0
    /\ blobs = <<>>
    /\ stored = NoBlob
    /\ decoded = NotCalled

StoreIdle ==
    /\ source = "none"
    /\ db = NoneValue
    /\ connections = <<>>
    /\ databases = <<>>
    /\ history = <<>>
    /\ result = NotCalled
    /\ handles = <<>>
    /\ compared = NotCalled

WriteIdle ==
    /\ fs = [dirs |-> {}, files |-> <<>>]
    /\ writer = [path |-> <<>>, tmpdir |-> NoneValue, tmppath |-> <<>>,
                 file |-> "None", succeeded |-> "None"]
    /\ previous = fs
    /\ wpc = "idle"
    /\ written = <<>>
    /\ raised = "none"

---------------------------------------------------------------------------
(* Bounds of the model.                                                    *)

MaxSeqs == 2        \* SEQ lines in a generated EMF block
MaxCols == 2        \* data lines (alignment columns) in a generated EMF block
MaxBlocks == 3      \* blocks in a generated multi-block EMF file
MaxMafLines == 4    \* lines in a generated MAF file

---------------------------------------------------------------------------
(* Python's str and list operations, as the parsers use them.              *)

Min(a, b) == IF a <= b THEN a ELSE b

\* s.startswith(prefix)
StartsWith(s, prefix) ==
    /\ Len(s) >= Len(prefix)
    /\ SubSeq(s, 1, Len(prefix)) = prefix

\* s[:n]
Prefix(s, n) == SubSeq(s, 1, Min(n, Len(s)))

\* s[start:end] for 0 <= start, with Python's clipping of end
Slice(s, start, end) == SubSeq(s, start + 1, Min(end, Len(s)))

\* sub in s
Contains(s, sub) ==
    \E i \in 1..(Len(s) - Len(sub) + 1) : SubSeq(s, i, i + Len(sub) - 1) = sub

Whitespace == {" ", "\n", "\t"}

\* the positions at which a maximal run of non-whitespace characters begins
TokenStarts(s) ==
    {i \in 1..Len(s) : s[i] \notin Whitespace /\ (i = 1 \/ s[i - 1] \in Whitespace)}

\* the position at which the run beginning at i ends
TokenEnd(s, i) ==
    CHOOSE j \in i..Len(s) :
        /\ \A m \in i..j : s[m] \notin Whitespace
        /\ (j = Len(s) \/ s[j + 1] \in Whitespace)

\* s.strip().split(): the maximal runs of non-whitespace characters, in order
Split(s) ==
    LET starts == TokenStarts(s)
        Nth(k) == CHOOSE i \in starts : Cardinality({j \in starts : j <= i}) = k
    IN  [k \in 1..Cardinality(starts) |-> SubSeq(s, Nth(k), TokenEnd(s, Nth(k)))]

RECURSIVE FindChar(_, _, _)
\* the 1-based position of the first c in s at or after i, 0 when there is none
FindChar(s, c, i) ==
    IF i > Len(s) THEN 0
    ELSE IF s[i] = c THEN i
    ELSE FindChar(s, c, i + 1)

\* s.split(c, maxsplit=1)
SplitFirst(s, c) ==
    LET p == FindChar(s, c, 1)
    IN  IF p = 0 THEN <<s>>
        ELSE <<SubSeq(s, 1, p - 1), SubSeq(s, p + 1, Len(s))>>

DigitChars == <<"0", "1", "2", "3", "4", "5", "6", "7", "8", "9">>

IsDigit(c) == \E d \in 1..10 : DigitChars[d] = c

DigitValue(c) == (CHOOSE d \in 1..10 : DigitChars[d] = c) - 1

RECURSIVE DigitsValue(_, _)
DigitsValue(t, acc) ==
    IF t = <<>> THEN acc
    ELSE DigitsValue(Tail(t), 10 * acc + DigitValue(Head(t)))

UnsignedText(t) == t # <<>> /\ \A i \in 1..Len(t) : IsDigit(t[i])

\* whether int(t) succeeds on the text t: an optional sign, then digits
IsIntText(t) ==
    IF t # <<>> /\ Head(t) \in {"-", "+"}
    THEN UnsignedText(Tail(t))
    ELSE UnsignedText(t)

\* int(t) for a text on which it succeeds
IntValue(t) ==
    IF Head(t) = "-" THEN 0 - DigitsValue(Tail(t), 0)
    ELSE IF Head(t) = "+" THEN DigitsValue(Tail(t), 0)
    ELSE DigitsValue(t, 0)

RECURSIVE NatToChars(_)
NatToChars(n) ==
    IF n < 10 THEN <<DigitChars[n + 1]>>
    ELSE Append(NatToChars(n \div 10), DigitChars[(n % 10) + 1])

\* str(n) of an int
IntToChars(n) == IF n < 0 THEN <<"-">> \o NatToChars(0 - n) ELSE NatToChars(n)

RECURSIVE Join(_, _)
\* sep.join(parts)
Join(sep, parts) ==
    IF parts = <<>> THEN <<>>
    ELSE IF Len(parts) = 1 THEN parts[1]
    ELSE parts[1] \o sep \o Join(sep, Tail(parts))

---------------------------------------------------------------------------
(* name.py: EmfName and MafName.  A name is the record of the dataclass's  *)
(* six fields.  A constructor's result is [err, name]: err is the          *)
(* exception the call raises, or "none".                                   *)

NoName ==
    [species |-> <<>>, coord_name |-> <<>>, start |-> 0, end |-> 0,
     strand |-> <<>>, coord_length |-> <<>>]

Raised(e) == [err |-> e, name |-> NoName]

EmfStartUnshifted(raw) == IntValue(raw)

\* EmfName.__post_init__: the stored start of a raw start
EmfStart(raw) == IntValue(raw) - 1

\* EmfName.__post_init__: the stored end of a raw end
EmfEnd(raw) == IntValue(raw)

\* EmfName(*args): the six fields are required positional arguments, start and
\* end go through int(), coord_length is stored as given
EmfName(args) ==
    IF Len(args) # 6 THEN Raised("TypeError")
    ELSE IF ~IsIntText(args[3]) \/ ~IsIntText(args[4]) THEN Raised("ValueError")
    ELSE [err |-> "none",
          name |-> [species |-> args[1], coord_name |-> args[2],
                    start |-> EmfStart(args[3]), end |-> EmfEnd(args[4]),
                    strand |-> args[5], coord_length |-> args[6]]]

\* the attributes __str__ and to_dict read, as printed by str()
PrintedAttrs(n) ==
    <<n.species, n.coord_name, IntToChars(n.start), IntToChars(n.end), n.strand>>

\* EmfName.__str__
EmfNameStr(n) == Join(<<":">>, PrintedAttrs(n))

\* EmfName.__hash__: hash(str(self)); the hash of a str is a function of its text
EmfNameHash(n) == EmfNameStr(n)

\* EmfName.__eq__, generated by @dataclass: the tuples of all fields are compared
EmfNameEq(a, b) ==
    <<a.species, a.coord_name, a.start, a.end, a.strand, a.coord_length>>
        = <<b.species, b.coord_name, b.start, b.end, b.strand, b.coord_length>>

\* None, and an int, as values of MafName.coord_length
IntObject(v) == [tag |-> "int", val |-> v]

\* MafName.__post_init__: int(self.coord_length) if self.coord_length else None
MafCoordLength(v) == IF v # 0 THEN IntObject(v) ELSE NoneValue

\* MafName(species=..., ...) on the ints _get_seqs passes: int() of an int is that int
MafName(species, coord_name, start, end, strand, coord_length) ==
    [species |-> species, coord_name |-> coord_name,
     start |-> start - 1, end |-> end,
     strand |-> strand, coord_length |-> MafCoordLength(coord_length)]

\* MafName.__str__
MafNameStr(n) == Join(<<":">>, PrintedAttrs(n))

\* MafName.__hash__
MafNameHash(n) == MafNameStr(n)

\* MafName.__eq__, generated by @dataclass
MafNameEq(a, b) ==
    <<a.species, a.coord_name, a.start, a.end, a.strand, a.coord_length>>
        = <<b.species, b.coord_name, b.start, b.end, b.strand, b.coord_length>>

---------------------------------------------------------------------------
(* dict: the items in insertion order.  A key matches a stored key when    *)
(* the hashes agree and __eq__ holds; assigning to a matching key replaces *)
(* the value and keeps the stored key.                                     *)

EmfKeyMatch(a, b) == EmfNameHash(a) = EmfNameHash(b) /\ EmfNameEq(a, b)

EmfDictSet(d, k, v) ==
    IF \E i \in 1..Len(d) : EmfKeyMatch(d[i].key, k)
    THEN [i \in 1..Len(d) |->
            IF EmfKeyMatch(d[i].key, k) THEN [key |-> d[i].key, value |-> v]
            ELSE d[i]]
    ELSE Append(d, [key |-> k, value |-> v])

MafKeyMatch(a, b) == MafNameHash(a) = MafNameHash(b) /\ MafNameEq(a, b)

MafDictSet(d, k, v) ==
    IF \E i \in 1..Len(d) : MafKeyMatch(d[i].key, k)
    THEN [i \in 1..Len(d) |->
            IF MafKeyMatch(d[i].key, k) THEN [key |-> d[i].key, value |-> v]
            ELSE d[i]]
    ELSE Append(d, [key |-> k, value |-> v])

---------------------------------------------------------------------------
(* emf.py                                                                  *)


FormatToken ==
    <<"#", "#", "F", "O", "R", "M", "A", "T", " ", "(", "c", "o", "m", "p",
      "a", "r", "a", ")">>

SeqToken ==
    <<"S", "E", "Q">>

DataToken ==
    <<"D", "A", "T", "A">>

BlockEndToken ==
    <<"/", "/">>

AncestralSequences ==
    <<"a", "n", "c", "e", "s", "t", "r", "a", "l", "_", "s", "e", "q", "u",
      "e", "n", "c", "e", "s">>

NoError(v) == [err |-> "none", value |-> v]
Failure(e) == [err |-> e, value |-> <<>>]

LoopExhaustedSilently(names, i) == [err |-> "none", names |-> names, i |-> i]

\* the else clause of the for loop: no line began with DATA
LoopExhausted(names, i) == [err |-> "RuntimeError", names |-> names, i |-> i]

RECURSIVE ScanSeqLines(_, _, _)
\* _get_block_seqnames, the for/else loop: the names of the SEQ lines before
\* the first DATA line and i, the 0-based index of that line; RuntimeError
\* when the loop ends without a break
ScanSeqLines(lines, i, names) ==
    IF i >= Len(lines) THEN LoopExhausted(names, i)
    ELSE IF StartsWith(lines[i + 1], SeqToken)
    THEN LET made == EmfName(Tail(Split(lines[i + 1])))
         IN  IF made.err # "none"
             THEN [err |-> made.err, names |-> names, i |-> i]
             ELSE ScanSeqLines(lines, i + 1, Append(names, made.name))
    ELSE IF StartsWith(lines[i + 1], DataToken)
    THEN [err |-> "none", names |-> names, i |-> i]
    ELSE ScanSeqLines(lines, i + 1, names)

FirstColumnIndexAtData(i) == i

\* the index of the first alignment column line, given the DATA line's index
FirstColumnIndex(i) == i + 1

\* seq_data = [aln_col[:num_seqs] for aln_col in data[i + 1 :]]
SeqData(lines, i, num_seqs) ==
    LET cols == Slice(lines, FirstColumnIndex(i), Len(lines))
    IN  [k \in 1..Len(cols) |-> Prefix(cols[k], num_seqs)]

\* the number of tuples zip(names, *seq_data) yields: that of its shortest argument
ZipLen(names, seq_data) ==
    LET lens == {Len(names)} \cup {Len(seq_data[k]) : k \in 1..Len(seq_data)}
    IN  CHOOSE m \in lens : \A n \in lens : m <= n

\* "".join(s) of the j-th tuple of the zip: the j-th character of every column line
Column(seq_data, j) == [k \in 1..Len(seq_data) |-> seq_data[k][j]]

KeptSpeciesAlways(n) == TRUE

\* the filter of the dict comprehension
KeptSpecies(n) == n.species # AncestralSequences

RECURSIVE BuildSeqs(_, _, _, _, _)
\* the dict comprehension over zip(names, *seq_data)
BuildSeqs(names, seq_data, j, m, d) ==
    IF j > m THEN d
    ELSE BuildSeqs(names, seq_data, j + 1, m,
                   IF KeptSpecies(names[j])
                   THEN EmfDictSet(d, names[j], Column(seq_data, j))
                   ELSE d)

\* _get_block_seqnames(data)
GetBlockSeqnames(lines) ==
    LET scan == ScanSeqLines(lines, 0, <<>>)
        seq_data == SeqData(lines, scan.i, Len(scan.names))
    IN  IF scan.err # "none" THEN Failure(scan.err)
        ELSE NoError(BuildSeqs(scan.names, seq_data, 1,
                               ZipLen(scan.names, seq_data), <<>>))

RECURSIVE IterBlocksFromFileStart(_, _, _, _)
IterBlocksFromFileStart(lines, i, start, found) ==
    IF i >= Len(lines) THEN found
    ELSE IF StartsWith(lines[i + 1], BlockEndToken)
    THEN IterBlocksFromFileStart(lines, i + 1, start, Append(found, <<start, i>>))
    ELSE IterBlocksFromFileStart(lines, i + 1, start, found)

RECURSIVE IterBlocksFrom(_, _, _, _)
IterBlocksFrom(lines, i, start, found) ==
    IF i >= Len(lines) THEN found
    ELSE IF StartsWith(lines[i + 1], BlockEndToken)
    THEN IterBlocksFrom(lines, i + 1, i + 1, Append(found, <<start, i>>))
    ELSE IterBlocksFrom(lines, i + 1, start, found)

\* _iter_blocks(data): the (start, end) pairs, end the index of a "//" line
IterBlocks(lines) == IterBlocksFrom(lines, 0, 0, <<>>)

FormatCheckIgnoringFlag(check, lines) ==
    IF lines = <<>> THEN "IndexError"
    ELSE IF ~StartsWith(lines[1], FormatToken) THEN "NotImplementedError"
    ELSE "none"

\* parse_emf, lines 77-80: the exception the header check raises, or "none";
\* data[0] is evaluated only when check_format is true
FormatCheck(check, lines) ==
    IF ~check THEN "none"
    ELSE IF lines = <<>> THEN "IndexError"
    ELSE IF ~StartsWith(lines[1], FormatToken) THEN "NotImplementedError"
    ELSE "none"

\* the generator is started: the file is read and the header checked
EmfOpen ==
    /\ parser = "emf"
    /\ pc = "open"
    /\ LET e == FormatCheck(check_format, data)
       IN  IF e # "none"
           THEN pc' = "failed" /\ error' = e
           ELSE pc' = "index" /\ error' = error
    /\ UNCHANGED <<parser, data, check_format, blocks, next_block, yielded>>
    /\ UNCHANGED <<codecVars, storeVars, writeVars>>

\* blocks = _iter_blocks(data)
EmfIterBlocks ==
    /\ parser = "emf"
    /\ pc = "index"
    /\ blocks' = IterBlocks(data)
    /\ next_block' = 0
    /\ pc' = "loop"
    /\ UNCHANGED <<parser, data, check_format, yielded, error>>
    /\ UNCHANGED <<codecVars, storeVars, writeVars>>

\* one iteration of the for loop: yield extract_data(data[start:end])
EmfYield ==
    /\ parser = "emf"
    /\ pc = "loop"
    /\ next_block < Len(blocks)
    /\ LET b == blocks[next_block + 1]
           r == GetBlockSeqnames(Slice(data, b[1], b[2]))
       IN  IF r.err # "none"
           THEN /\ pc' = "failed"
                /\ error' = r.err
                /\ UNCHANGED <<yielded, next_block>>
           ELSE /\ yielded' = Append(yielded, r.value)
                /\ next_block' = next_block + 1
                /\ UNCHANGED <<pc, error>>
    /\ UNCHANGED <<parser, data, check_format, blocks>>
    /\ UNCHANGED <<codecVars, storeVars, writeVars>>

\* the for loop is exhausted: the generator returns
EmfStop ==
    /\ parser = "emf"
    /\ pc = "loop"
    /\ next_block = Len(blocks)
    /\ pc' = "done"
    /\ UNCHANGED <<parser, data, check_format, blocks, next_block, yielded, error>>
    /\ UNCHANGED <<codecVars, storeVars, writeVars>>

---------------------------------------------------------------------------
(* maf.py                                                                  *)


AlignmentToken ==
    <<"a">>

SequenceToken ==
    <<"s">>

Ancestral ==
    <<"a", "n", "c", "e", "s", "t", "r", "a", "l">>

\* the length of the line prefix searched for "ancestral"
AncestralWindow == 100

\* the end of the last block: the value the loop variable i holds after the loop
LastBlockEnd(lines) == Len(lines) - 1

RECURSIVE BlockIndicesFrom(_, _, _, _)
\* the loop of _get_alignment_block_indices; start = -1 stands for None
BlockIndicesFrom(lines, i, start, found) ==
    IF i >= Len(lines)
    THEN IF start = -1 THEN <<>>
         ELSE Append(found, <<start, LastBlockEnd(lines)>>)
    ELSE IF StartsWith(lines[i + 1], AlignmentToken)
    THEN BlockIndicesFrom(lines, i + 1, i,
                          IF start # -1 THEN Append(found, <<start, i>>) ELSE found)
    ELSE BlockIndicesFrom(lines, i + 1, start, found)

GetAlignmentBlockIndicesFirstOnly(lines) ==
    LET all == BlockIndicesFrom(lines, 0, -1, <<>>)
    IN  IF all = <<>> THEN <<>> ELSE <<all[1]>>

\* _get_alignment_block_indices(data)
GetAlignmentBlockIndices(lines) == BlockIndicesFrom(lines, 0, -1, <<>>)

SkippedAnywhere(line) ==
    \/ ~StartsWith(line, SequenceToken)
    \/ Contains(line, Ancestral)

\* the lines _get_seqs skips
Skipped(line) ==
    \/ ~StartsWith(line, SequenceToken)
    \/ Contains(Prefix(line, AncestralWindow), Ancestral)

\* the end argument _get_seqs passes to MafName, from the ints start and size
MafEnd(start, size) == start + start

\* the body of _get_seqs' loop for a line that is not skipped: the name and
\* the sequence it adds, or the ValueError of an unpacking or an int()
ParseSeqLine(line) ==
    LET f == Split(line)
        src == SplitFirst(f[2], ".")
    IN  IF Len(f) # 7 THEN [err |-> "ValueError", name |-> NoName, seq |-> <<>>]
        ELSE IF Len(src) # 2
        THEN [err |-> "ValueError", name |-> NoName, seq |-> <<>>]
        ELSE IF ~IsIntText(f[3]) \/ ~IsIntText(f[4]) \/ ~IsIntText(f[6])
        THEN [err |-> "ValueError", name |-> NoName, seq |-> <<>>]
        ELSE [err |-> "none",
              name |-> MafName(src[1], src[2], IntValue(f[3]),
                               MafEnd(IntValue(f[3]), IntValue(f[4])),
                               f[5], IntValue(f[6])),
              seq |-> f[7]]

RECURSIVE GetSeqsFrom(_, _, _)
GetSeqsFrom(lines, k, alignment) ==
    IF k > Len(lines) THEN NoError(alignment)
    ELSE IF Skipped(lines[k]) THEN GetSeqsFrom(lines, k + 1, alignment)
    ELSE LET p == ParseSeqLine(lines[k])
         IN  IF p.err # "none" THEN Failure(p.err)
             ELSE GetSeqsFrom(lines, k + 1, MafDictSet(alignment, p.name, p.seq))

\* _get_seqs(lines)
GetSeqs(lines) == GetSeqsFrom(lines, 1, <<>>)

\* the generator is started: the file is read
MafOpen ==
    /\ parser = "maf"
    /\ pc = "open"
    /\ pc' = "index"
    /\ UNCHANGED <<parser, data, check_format, blocks, next_block, yielded, error>>
    /\ UNCHANGED <<codecVars, storeVars, writeVars>>

\* blocks = _get_alignment_block_indices(data)
MafBlockIndices ==
    /\ parser = "maf"
    /\ pc = "index"
    /\ blocks' = GetAlignmentBlockIndices(data)
    /\ next_block' = 0
    /\ pc' = "loop"
    /\ UNCHANGED <<parser, data, check_format, yielded, error>>
    /\ UNCHANGED <<codecVars, storeVars, writeVars>>

\* one iteration of the for loop: yield _get_seqs(data[block_start:block_end])
MafYield ==
    /\ parser = "maf"
    /\ pc = "loop"
    /\ next_block < Len(blocks)
    /\ LET b == blocks[next_block + 1]
           r == GetSeqs(Slice(data, b[1], b[2]))
       IN  IF r.err # "none"
           THEN /\ pc' = "failed"
                /\ error' = r.err
                /\ UNCHANGED <<yielded, next_block>>
           ELSE /\ yielded' = Append(yielded, r.value)
                /\ next_block' = next_block + 1
                /\ UNCHANGED <<pc, error>>
    /\ UNCHANGED <<parser, data, check_format, blocks>>
    /\ UNCHANGED <<codecVars, storeVars, writeVars>>

\* the for loop is exhausted: the generator returns
MafStop ==
    /\ parser = "maf"
    /\ pc = "loop"
    /\ next_block = Len(blocks)
    /\ pc' = "done"
    /\ UNCHANGED <<parser, data, check_format, blocks, next_block, yielded, error>>
    /\ UNCHANGED <<codecVars, storeVars, writeVars>>

---------------------------------------------------------------------------
(* The input files.  EMF lines:                                            *)

HeaderLine ==
    <<"#", "#", "F", "O", "R", "M", "A", "T", " ", "(", "c", "o", "m", "p",
      "a", "r", "a", ")", "\n">>

OtherHeaderLine ==
    <<"#", "#", "F", "O", "R", "M", "A", "T", " ", "(", "g", "e", "n", "e",
      ")", "\n">>

DataLine ==
    <<"D", "A", "T", "A", "\n">>

BlockEndLine ==
    <<"/", "/", "\n">>

SeqH5 ==
    <<"S", "E", "Q", " ", "h", " ", "c", " ", "1", " ", "9", " ", "1", " ",
      "5", "\n">>

SeqH7 ==
    <<"S", "E", "Q", " ", "h", " ", "c", " ", "1", " ", "9", " ", "1", " ",
      "7", "\n">>

SeqAnc ==
    <<"S", "E", "Q", " ", "a", "n", "c", "e", "s", "t", "r", "a", "l", "_",
      "s", "e", "q", "u", "e", "n", "c", "e", "s", " ", "c", " ", "1", " ",
      "9", " ", "1", " ", "5", "\n">>

SeqM ==
    <<"S", "E", "Q", " ", "m", " ", "d", " ", "2", " ", "8", " ", "-", "1",
      " ", "6", "\n">>

SeqFive ==
    <<"S", "E", "Q", " ", "m", " ", "d", " ", "2", " ", "8", " ", "-", "1",
      "\n">>

ColAC ==
    <<"A", "C", "\n">>

ColGap ==
    <<"G", "-", "\n">>

ColScore ==
    <<"T", "A", "C", " ", "9", "\n">>

ColTri ==
    <<"G", "A", "-", "\n">>

ColShort ==
    <<"C", "\n">>

ExSeq1 ==
    <<"S", "E", "Q", " ", "s", "p", "e", "c", "i", "e", "s", "1", " ", "c",
      "h", "r", "1", " ", "1", " ", "1", "0", " ", "1", "\n">>

ExSeq2 ==
    <<"S", "E", "Q", " ", "s", "p", "e", "c", "i", "e", "s", "2", " ", "c",
      "h", "r", "2", " ", "1", " ", "1", "0", " ", "1", "\n">>

ExColGT ==
    <<"G", "T", "\n">>

\* the sequences over S of length at most n
SeqsUpTo(S, n) == UNION {[1..k -> S] : k \in 0..n}

RECURSIVE Flatten(_)
Flatten(ss) == IF ss = <<>> THEN <<>> ELSE Head(ss) \o Flatten(Tail(ss))

SeqLinePool == {SeqH5, SeqH7, SeqAnc, SeqM}
ColLinePool == {ColAC, ColGap, ColScore, ColShort}

\* one-block files: any SEQ lines, then nothing or DATA and any column lines
EmfBlockFiles ==
    {<<HeaderLine>> \o s \o body \o <<BlockEndLine>> :
        s \in SeqsUpTo(SeqLinePool, MaxSeqs),
        body \in {<<>>} \cup {<<DataLine>> \o c : c \in SeqsUpTo(ColLinePool, MaxCols)}}

BlockPool ==
    { <<SeqH5, SeqAnc, SeqM, DataLine, ColScore, ColTri, BlockEndLine>>,
      <<SeqM, DataLine, ColGap, BlockEndLine>>,
      <<SeqAnc, DataLine, ColAC, BlockEndLine>>,
      <<SeqFive, DataLine, ColShort, BlockEndLine>>,
      <<SeqH5, BlockEndLine>>,
      <<SeqFive, BlockEndLine>>,
      <<BlockEndLine>> }

\* multi-block files: a first line or none, blocks, and lines after the last "//"
EmfStreamFiles ==
    {first \o Flatten(bs) \o rest :
        first \in {<<>>, <<HeaderLine>>, <<OtherHeaderLine>>},
        bs \in SeqsUpTo(BlockPool, MaxBlocks),
        rest \in {<<>>, <<SeqH5, DataLine>>}}

\* the example of the specification's section 8
EmfExampleFile ==
    <<HeaderLine, ExSeq1, ExSeq2, DataLine, ColAC, ExColGT, BlockEndLine>>

(* MAF lines:                                                              *)

MafA ==
    <<"a", " ", "s", "c", "o", "r", "e", "=", "1", "\n">>

MafSH ==
    <<"s", " ", "h", ".", "c", " ", "3", " ", "5", " ", "+", " ", "9", " ",
      "A", "C", "G", "T", "A", "\n">>

MafSM ==
    <<"s", " ", "m", ".", "d", ".", "e", " ", "7", " ", "2", " ", "-", " ",
      "8", " ", "A", "C", "\n">>

MafSAnc ==
    <<"s", " ", "a", "n", "c", "e", "s", "t", "r", "a", "l", ".", "c", " ",
      "1", " ", "2", " ", "+", " ", "3", " ", "A", "A", "\n">>

MafBlank ==
    <<"\n">>

MafShort ==
    <<"s", " ", "h", ".", "c", " ", "3", "\n">>

\* an s line whose "ancestral" begins six characters before the end of the
\* searched prefix and ends after it
MafSLate ==
    <<"s", " ", "h", ".", "c", " ", "3", " ", "5", " ", "+", " ", "9", " ">>
        \o [i \in 1..(AncestralWindow - 20) |-> "A"] \o Ancestral \o <<"\n">>

\* an ancestral s line with too few fields to unpack
MafSAncShort ==
    <<"s", " ", "a", "n", "c", "e", "s", "t", "r", "a", "l", " ", "1", "\n">>

MafLinePool == {MafA, MafSH, MafSM, MafSAnc, MafBlank, MafShort}

MafFiles == SeqsUpTo(MafLinePool, MaxMafLines)

\* one-block files around the prefix searched for "ancestral"
MafWindowFiles ==
    {<<MafA>> \o s \o <<MafBlank>> :
        s \in SeqsUpTo({MafSLate, MafSAncShort, MafSH}, MaxMafLines - 2)}

Inputs ==
    [parser : {"emf"}, data : EmfBlockFiles \cup {EmfExampleFile}, check : {TRUE}]
        \cup [parser : {"emf"}, data : EmfStreamFiles, check : BOOLEAN]
        \cup [parser : {"maf"}, data : MafFiles \cup MafWindowFiles, check : {FALSE}]

---------------------------------------------------------------------------

Init ==
    /\ \E in \in Inputs :
        /\ parser = in.parser
        /\ data = in.data
        /\ check_format = in.check
    /\ pc = "open"
    /\ blocks = <<>>
    /\ next_block = 0
    /\ yielded = <<>>
    /\ error = "none"
    /\ CodecIdle
    /\ StoreIdle
    /\ WriteIdle

Next ==
    \/ EmfOpen
    \/ EmfIterBlocks
    \/ EmfYield
    \/ EmfStop
    \/ MafOpen
    \/ MafBlockIndices
    \/ MafYield
    \/ MafStop

Spec == Init /\ [][Next]_vars

---------------------------------------------------------------------------
(* Properties.  Mapping k of yielded is the extraction of block k: the     *)
(* lines data[start:end] of blocks[k].                                     *)

BlockLines(k) == Slice(data, blocks[k][1], blocks[k][2])

Finished == pc \in {"done", "failed"}

\* a MAF line that _get_seqs retains and whose fields parse
RetainedSeqLine(line) ==
    /\ StartsWith(line, SequenceToken)
    /\ ~Contains(Prefix(line, AncestralWindow), Ancestral)
    /\ Len(Split(line)) = 7
    /\ Len(SplitFirst(Split(line)[2], ".")) = 2
    /\ IsIntText(Split(line)[3]) /\ IsIntText(Split(line)[4])
    /\ IsIntText(Split(line)[6])

\* the item of a MAF mapping that comes from a retained line: the species,
\* coord_name, strand and sequence are the line's, the start is its start - 1
ItemOfLine(item, line) ==
    LET f == Split(line)
        src == SplitFirst(f[2], ".")
    IN  /\ item.key.species = src[1]
        /\ item.key.coord_name = src[2]
        /\ item.key.strand = f[5]
        /\ item.key.start = IntValue(f[3]) - 1
        /\ item.value = f[7]

\* C1: every retained MAF sequence line with start field s and size field z
\* is emitted as an entity with start = s - 1 and end = (s - 1) + z.
C1_MafEndFromSize ==
    parser = "maf" =>
        \A k \in 1..Len(yielded) :
            \A i \in 1..Len(BlockLines(k)) :
                LET line == BlockLines(k)[i]
                IN  RetainedSeqLine(line) =>
                        \E j \in 1..Len(yielded[k]) :
                            /\ ItemOfLine(yielded[k][j], line)
                            /\ yielded[k][j].key.end
                                 = (IntValue(Split(line)[3]) - 1)
                                     + IntValue(Split(line)[4])

\* C2: a MAF block extends to the end of the input: when the last line of
\* the file is a retained s line that follows an a line, the final mapping
\* holds its entity.
C2_LastLineInFinalBlock ==
    ( /\ parser = "maf"
      /\ pc = "done"
      /\ data # <<>>
      /\ RetainedSeqLine(data[Len(data)])
      /\ \E i \in 1..Len(data) : StartsWith(data[i], AlignmentToken) )
    => /\ yielded # <<>>
       /\ \E j \in 1..Len(yielded[Len(yielded)]) :
            ItemOfLine(yielded[Len(yielded)][j], data[Len(data)])

\* the lines of an EMF file that begin with "//"
EndLines == {i \in 1..Len(data) : StartsWith(data[i], BlockEndToken)}

\* an EMF block between two "//" lines: SEQ lines of six fields with numeric
\* coordinates, one DATA line, column lines
PlainSeqLine(line) ==
    /\ Len(Split(line)) = 7
    /\ IsIntText(Split(line)[4]) /\ IsIntText(Split(line)[5])

PlainBlock(lines) ==
    \E d \in 1..Len(lines) :
        /\ StartsWith(lines[d], DataToken)
        /\ \A i \in 1..(d - 1) :
              StartsWith(lines[i], SeqToken) => PlainSeqLine(lines[i])

\* C3: two consecutive "//" lines make an empty block, for which nothing is
\* emitted and no error is raised; the blocks before and after it are emitted.
C3_EmptyBlockSkipped ==
    ( /\ parser = "emf"
      /\ Finished
      /\ FormatCheck(check_format, data) = "none"
      /\ 1 \notin EndLines
      /\ \E i \in EndLines : i + 1 \in EndLines
      /\ \A k \in 1..Len(blocks) :
            BlockLines(k) # <<>> => PlainBlock(BlockLines(k)) )
    => /\ pc = "done"
       /\ error = "none"
       /\ Len(yielded) = Cardinality({k \in 1..Len(blocks) : BlockLines(k) # <<>>})

\* C4: no mapping emitted by the EMF or the MAF parser is empty.
C4_NoEmptyMapping ==
    \A k \in 1..Len(yielded) : yielded[k] # <<>>

\* the keys of all the mappings yielded so far
YieldedKeys ==
    UNION {{yielded[k][j].key : j \in 1..Len(yielded[k])} : k \in 1..Len(yielded)}

SameIdentity(a, b) ==
    /\ a.species = b.species
    /\ a.coord_name = b.coord_name
    /\ a.start = b.start
    /\ a.end = b.end
    /\ a.strand = b.strand

\* C5: two names whose species, coord_name, start, end and strand are
\* identical compare equal and have the same hash, whatever their coord_length.
C5_IdentityIgnoresCoordLength ==
    \A a \in YieldedKeys : \A b \in YieldedKeys :
        SameIdentity(a, b) =>
            IF parser = "emf"
            THEN EmfNameEq(a, b) /\ EmfNameHash(a) = EmfNameHash(b)
            ELSE MafNameEq(a, b) /\ MafNameHash(a) = MafNameHash(b)

ExKey1 ==
    <<"s", "p", "e", "c", "i", "e", "s", "1", ":", "c", "h", "r", "1", ":",
      "0", ":", "1", "0", ":", "1">>

ExKey2 ==
    <<"s", "p", "e", "c", "i", "e", "s", "2", ":", "c", "h", "r", "2", ":",
      "0", ":", "1", "0", ":", "1">>

\* C6: the example file, whose SEQ lines carry five fields after the SEQ
\* token, is parsed without error into exactly one block, which maps
\* species1:chr1:0:10:1 to "AG" and species2:chr2:0:10:1 to "CT".
C6_ExampleYieldsOneBlock ==
    (parser = "emf" /\ data = EmfExampleFile /\ Finished)
    => /\ pc = "done"
       /\ error = "none"
       /\ Len(yielded) = 1
       /\ Len(yielded[1]) = 2
       /\ {<<EmfNameStr(yielded[1][j].key), yielded[1][j].value>> : j \in 1..2}
            = {<<ExKey1, <<"A", "G">>>>, <<ExKey2, <<"C", "T">>>>}

(* The parts of EMF block k, read off its lines: d is the 1-based position *)
(* of the first line beginning with DATA, the declarations are the SEQ     *)
(* lines before it, the columns are the lines after it.                    *)

DataLines(lines) == {i \in 1..Len(lines) : StartsWith(lines[i], DataToken)}

HasData(lines) == DataLines(lines) # {}

DataPosition(lines) ==
    CHOOSE d \in DataLines(lines) : \A e \in DataLines(lines) : d <= e

Declarations(lines) ==
    SelectSeq(SubSeq(lines, 1, DataPosition(lines) - 1),
              LAMBDA l : StartsWith(l, SeqToken))

ColumnLines(lines) == SubSeq(lines, DataPosition(lines) + 1, Len(lines))

\* the entity a SEQ line declares
Declared(line) ==
    LET f == Split(line)
    IN  [species |-> f[2], coord_name |-> f[3], start |-> IntValue(f[4]) - 1,
         end |-> IntValue(f[5]), strand |-> f[6], coord_length |-> f[7]]

\* the p-th character of every column line, in line order
CharsAt(cols, p) == [c \in 1..Len(cols) |-> cols[c][p]]

\* every column line has a character for every declared sequence, and no
\* entity is declared twice
WellFormedBlock(lines) ==
    LET decl == Declarations(lines)
        cols == ColumnLines(lines)
    IN  /\ \A c \in 1..Len(cols) : Len(cols[c]) >= Len(decl)
        /\ \A p \in 1..Len(decl) : \A q \in 1..Len(decl) :
              p # q => Declared(decl[p]) # Declared(decl[q])

\* C7: in every emitted EMF block the string of the entity declared at
\* position p is the concatenation, in line order, of the p-th character of
\* every line between DATA and "//"; every emitted string is such a column
\* of a declared position, so no character at or beyond the declared
\* sequence count is emitted.
C7_ColumnsByDeclaredPosition ==
    parser = "emf" =>
        \A k \in 1..Len(yielded) :
            LET lines == BlockLines(k)
                decl == Declarations(lines)
                cols == ColumnLines(lines)
            IN  /\ HasData(lines)
                /\ \A j \in 1..Len(yielded[k]) :
                      \E p \in 1..Len(decl) :
                          /\ \A c \in 1..Len(cols) : p <= Len(cols[c])
                          /\ yielded[k][j].key = Declared(decl[p])
                          /\ yielded[k][j].value = CharsAt(cols, p)
                /\ WellFormedBlock(lines) =>
                      \A p \in 1..Len(decl) :
                          Declared(decl[p]).species # AncestralSequences =>
                              \E j \in 1..Len(yielded[k]) :
                                  /\ yielded[k][j].key = Declared(decl[p])
                                  /\ yielded[k][j].value = CharsAt(cols, p)

\* a block of two declared sequences and two column lines, one of them with
\* a trailing score field, has been emitted column by column
C7_Witness ==
    /\ parser = "emf"
    /\ data = <<HeaderLine, SeqH5, SeqM, DataLine, ColAC, ColScore, BlockEndLine>>
    /\ Len(yielded) = 1
    /\ Len(yielded[1]) = 2
    /\ yielded[1][1].value = <<"A", "T">>
    /\ yielded[1][2].value = <<"C", "A">>

\* C8: in every mapping the EMF parser emits all strings have the same
\* length, and no key has the species ancestral_sequences.
C8_EqualLengthNoAncestral ==
    parser = "emf" =>
        \A k \in 1..Len(yielded) :
            \A i \in 1..Len(yielded[k]) :
                /\ yielded[k][i].key.species # AncestralSequences
                /\ \A j \in 1..Len(yielded[k]) :
                      Len(yielded[k][i].value) = Len(yielded[k][j].value)

\* a block declaring an ancestral sequence between two others has been
\* emitted with the two others only, both strings two characters long
C8_Witness ==
    /\ parser = "emf"
    /\ yielded # <<>>
    /\ BlockLines(1)
         = <<HeaderLine, SeqH5, SeqAnc, SeqM, DataLine, ColScore, ColTri>>
    /\ Len(yielded[1]) = 2
    /\ yielded[1][1].value = <<"T", "G">>
    /\ yielded[1][2].value = <<"C", "-">>

\* C9: when the first line does not begin with "##FORMAT (compara)": with
\* check_format the parse fails with the format error and yields nothing;
\* without it no format error is raised and the blocks are yielded, one per
\* "//" line when the parse completes.
C9_FormatCheck ==
    (parser = "emf" /\ data # <<>> /\ ~StartsWith(data[1], FormatToken)) =>
        IF check_format
        THEN /\ yielded = <<>>
             /\ pc \in {"open", "failed"}
             /\ pc = "failed" => error = "NotImplementedError"
        ELSE /\ error # "NotImplementedError"
             /\ pc = "failed" => next_block < Len(blocks)
             /\ pc \in {"loop", "done", "failed"} => Len(yielded) = next_block
             /\ pc = "done" => Len(yielded) = Cardinality(EndLines)

\* a file with another header was rejected with check_format enabled
C9_Witness ==
    /\ parser = "emf"
    /\ check_format
    /\ data # <<>>
    /\ data[1] = OtherHeaderLine
    /\ Cardinality(EndLines) > 0
    /\ pc = "failed"
    /\ error = "NotImplementedError"
    /\ yielded = <<>>

\* the same kind of file was parsed to its end with check_format disabled
C9_WitnessUnchecked ==
    /\ parser = "emf"
    /\ ~check_format
    /\ data # <<>>
    /\ data[1] = OtherHeaderLine
    /\ pc = "done"
    /\ Len(yielded) = 2

\* every SEQ line of a block is one EmfName accepts
ConstructibleSeqLines(lines) ==
    \A i \in 1..Len(lines) :
        StartsWith(lines[i], SeqToken) => PlainSeqLine(lines[i])

\* C10: a "//"-terminated EMF block with no line beginning with DATA is
\* never emitted as a mapping: the parse does not complete, and extracting
\* the block fails with the structural error (RuntimeError).
C10_MissingDataFails ==
    parser = "emf" =>
        \A k \in 1..Len(blocks) :
            ~HasData(BlockLines(k)) =>
                /\ Len(yielded) < k
                /\ pc # "done"
                /\ ( /\ pc = "failed"
                     /\ next_block = k - 1
                     /\ ConstructibleSeqLines(BlockLines(k)) )
                   => error = "RuntimeError"

\* a block with a SEQ line and no DATA line, after an emitted block, has
\* failed with RuntimeError
C10_Witness ==
    /\ parser = "emf"
    /\ Len(blocks) >= 2
    /\ BlockLines(2) = <<SeqH5>>
    /\ Len(yielded) = 1
    /\ pc = "failed"
    /\ error = "RuntimeError"

\* C11: an empty input yields zero blocks and raises no error, with the EMF
\* parser (check_format enabled or disabled) and with the MAF parser; EMF
\* lines after the last "//" line yield no block and raise no error.
C11_EmptyInputYieldsNothing ==
    /\ (data = <<>> /\ Finished) => (pc = "done" /\ error = "none" /\ yielded = <<>>)
    /\ (parser = "emf" /\ pc = "done") => Len(yielded) = Cardinality(EndLines)

\* the species, coord_name and strand of a key are those of a SEQ line
KeyOfSeqLine(key, line) ==
    /\ key.species = Split(line)[2]
    /\ key.coord_name = Split(line)[3]
    /\ key.strand = Split(line)[6]

\* C12: for every EMF SEQ record with raw start a and raw end b the
\* constructed EmfName has start = a - 1 and end = b, both integers: every
\* key of an emitted mapping is that of a SEQ line of its block with these
\* coordinates, and in a well-formed block every SEQ line that is not
\* ancestral has such a key.
C12_EmfCoordinates ==
    parser = "emf" =>
        \A k \in 1..Len(yielded) :
            LET decl == Declarations(BlockLines(k))
                Built(key, line) ==
                    /\ KeyOfSeqLine(key, line)
                    /\ key.start \in Int /\ key.end \in Int
                    /\ key.start = IntValue(Split(line)[4]) - 1
                    /\ key.end = IntValue(Split(line)[5])
            IN  /\ \A j \in 1..Len(yielded[k]) :
                      \E p \in 1..Len(decl) : Built(yielded[k][j].key, decl[p])
                /\ WellFormedBlock(BlockLines(k)) =>
                      \A p \in 1..Len(decl) :
                          Split(decl[p])[2] # AncestralSequences =>
                              \E j \in 1..Len(yielded[k]) :
                                  Built(yielded[k][j].key, decl[p])

\* the line "SEQ m d 2 8 -1 6" has been emitted as an entity from 1 to 8
C12_Witness ==
    /\ parser = "emf"
    /\ data = <<HeaderLine, SeqM, DataLine, ColGap, BlockEndLine>>
    /\ Len(yielded) = 1
    /\ Len(yielded[1]) = 1
    /\ yielded[1][1].key.start = 1
    /\ yielded[1][1].key.end = 8

\* C13: the coord_length of every constructed name is the integer parsed
\* from the raw value when one is supplied (None otherwise), never the
\* unparsed text.
C13_CoordLengthParsed ==
    \A k \in 1..Len(yielded) :
        \A j \in 1..Len(yielded[k]) :
            LET key == yielded[k][j].key
            IN  IF parser = "emf"
                THEN \A p \in 1..Len(Declarations(BlockLines(k))) :
                        LET line == Declarations(BlockLines(k))[p]
                        IN  ( /\ KeyOfSeqLine(key, line)
                              /\ key.start = IntValue(Split(line)[4]) - 1 )
                            => key.coord_length # Split(line)[7]
                ELSE \E i \in 1..Len(BlockLines(k)) :
                        /\ RetainedSeqLine(BlockLines(k)[i])
                        /\ ItemOfLine(yielded[k][j], BlockLines(k)[i])
                        /\ key.coord_length
                             = IntObject(IntValue(Split(BlockLines(k)[i])[6]))

\* the lines of a MAF block that the claim says contribute an entry
KeptLine(line) ==
    /\ StartsWith(line, SequenceToken)
    /\ ~Contains(Prefix(line, AncestralWindow), Ancestral)

\* the entity of a key is that of a MAF line
KeyOfMafLine(key, line) ==
    LET f == Split(line)
        src == SplitFirst(f[2], ".")
    IN  /\ key.species = src[1]
        /\ key.coord_name = src[2]
        /\ key.strand = f[5]
        /\ key.start = IntValue(f[3]) - 1

\* C14: within a MAF block a line contributes an entry to the emitted
\* mapping if and only if it begins with "s" and its first 100 characters do
\* not contain "ancestral"; every other line is ignored without being
\* field-parsed: an error comes only from a contributing line.  (Every
\* entry is the entity and sequence of a contributing line, and every
\* contributing line has the entry of its entity; of two contributing lines
\* with one entity the later gives the sequence.)
C14_OnlySeqLinesContribute ==
    parser = "maf" =>
        /\ \A k \in 1..Len(yielded) :
              LET lines == BlockLines(k)
              IN  /\ \A j \in 1..Len(yielded[k]) :
                        \E i \in 1..Len(lines) :
                            KeptLine(lines[i]) /\ ItemOfLine(yielded[k][j], lines[i])
                  /\ \A i \in 1..Len(lines) :
                        KeptLine(lines[i]) =>
                            \E j \in 1..Len(yielded[k]) :
                                KeyOfMafLine(yielded[k][j].key, lines[i])
        /\ pc = "failed" =>
              /\ error = "ValueError"
              /\ \E i \in 1..Len(BlockLines(next_block + 1)) :
                    /\ KeptLine(BlockLines(next_block + 1)[i])
                    /\ ~RetainedSeqLine(BlockLines(next_block + 1)[i])

\* a block with an s line whose "ancestral" crosses the end of the prefix,
\* an ancestral s line of three fields and an empty line has been emitted
\* with the first line only
C14_Witness ==
    /\ parser = "maf"
    /\ data = <<MafA, MafSLate, MafSAncShort, MafBlank>>
    /\ pc = "done"
    /\ Len(yielded) = 1
    /\ Len(yielded[1]) = 1
    /\ yielded[1][1].value = Split(MafSLate)[7]

\* the positions of the lines beginning with "a"
ALines == {i \in 1..Len(data) : StartsWith(data[i], AlignmentToken)}

\* the k-th of them
ALine(k) == CHOOSE a \in ALines : Cardinality({b \in ALines : b <= a}) = k

\* the lines from the k-th "a" line up to the next one or the end of input
LinesOfALine(k) ==
    SubSeq(data, ALine(k),
           IF k < Cardinality(ALines) THEN ALine(k + 1) - 1 ELSE Len(data))

\* C15: the MAF parser emits one mapping per line beginning with "a", in
\* input order (block k starts at the k-th such line, and a completed parse
\* has emitted one mapping for each); a block with no retained sequence line
\* is emitted as an empty mapping.
C15_OneMappingPerALine ==
    (parser = "maf" /\ pc \in {"loop", "done", "failed"}) =>
        /\ Len(blocks) = Cardinality(ALines)
        /\ \A k \in 1..Len(blocks) : blocks[k][1] + 1 = ALine(k)
        /\ Len(yielded) = next_block
        /\ pc = "done" => Len(yielded) = Cardinality(ALines)
        /\ \A k \in 1..Len(yielded) :
              (\A i \in 1..Len(LinesOfALine(k)) : ~KeptLine(LinesOfALine(k)[i]))
                  => yielded[k] = <<>>

\* two "a" lines, the first with no sequence line: an empty mapping, then
\* the mapping of the second block
C15_Witness ==
    /\ parser = "maf"
    /\ data = <<MafA, MafA, MafSH, MafBlank>>
    /\ pc = "done"
    /\ Len(yielded) = 2
    /\ yielded[1] = <<>>
    /\ Len(yielded[2]) = 1

---------------------------------------------------------------------------
(***************************************************************************)
(* The coordinate array codec (src/src/ensembl_cli/_db_base.py, lines      *)
(* 23-30).  A numpy array is its shape and its flat buffer of elements in  *)
(* C order; bytes are a sequence of numbers 0..255.  A gzip member is the  *)
(* record of its fields: the header's magic number and modification time,  *)
(* the deflated payload, and the trailer's checksum and size.  The payload *)
(* is a run-length code, which like deflate is lossless, shorter on        *)
(* repetitive input and a function of the input bytes alone; the checksum  *)
(* is a byte sum where gzip keeps a CRC-32.                                *)
(***************************************************************************)

MaxRows == 2        \* rows of a generated interval array
MaxClock == 1       \* seconds that pass while the codec is in use
MaxEncodes == 2     \* array_to_sqlite calls on the same array
MaxRawBytes == 9    \* bytes a generated foreign blob decompresses to

Int32Min == -2147483647 - 1
Int32Max == 2147483647

\* one int32 element as its 4 bytes, little-endian two's complement
ElementBytes(v) ==
    LET w == IF v < 0 THEN (v + Int32Max) + 1 ELSE v
    IN  << w % 256,
           (w \div 256) % 256,
           (w \div 65536) % 256,
           (w \div 16777216) + (IF v < 0 THEN 128 ELSE 0) >>

\* data.tobytes(): the elements' bytes in C order
ToBytes(a) == Flatten([i \in 1..Len(a.flat) |-> ElementBytes(a.flat[i])])

\* 4 bytes read back as one int32 element
ElementValue(b) ==
    LET low == b[1] + 256 * b[2] + 65536 * b[3] + 16777216 * (b[4] % 128)
    IN  IF b[4] >= 128 THEN (low - Int32Max) - 1 ELSE low

\* the length of the run of equal bytes that starts the sequence
RunLength(bytes) ==
    CHOOSE n \in 1..Len(bytes) :
        /\ \A i \in 1..n : bytes[i] = bytes[1]
        /\ (n = Len(bytes) \/ bytes[n + 1] # bytes[1])

RECURSIVE Deflate(_)
Deflate(bytes) ==
    IF bytes = <<>> THEN <<>>
    ELSE LET n == RunLength(bytes)
         IN  << <<n, bytes[1]>> >> \o Deflate(SubSeq(bytes, n + 1, Len(bytes)))

RECURSIVE Inflate(_)
Inflate(runs) ==
    IF runs = <<>> THEN <<>>
    ELSE [i \in 1..Head(runs)[1] |-> Head(runs)[2]] \o Inflate(Tail(runs))

RECURSIVE Checksum(_)
Checksum(bytes) ==
    IF bytes = <<>> THEN 0 ELSE (bytes[1] + Checksum(Tail(bytes))) % 65521

GzipMagic == <<31, 139>>

\* gzip.compress(data): mtime is not passed, so the header takes the current time
GzipCompress(bytes, now) ==
    [magic |-> GzipMagic, mtime |-> now, deflated |-> Deflate(bytes),
     crc |-> Checksum(bytes), isize |-> Len(bytes)]

\* gzip.decompress(data)
GzipDecompress(blob) ==
    IF blob.magic # GzipMagic THEN Failure("BadGzipFile")
    ELSE LET bytes == Inflate(blob.deflated)
         IN  IF blob.crc # Checksum(bytes) \/ blob.isize # Len(bytes)
             THEN Failure("BadGzipFile")
             ELSE NoError(bytes)

\* array_to_sqlite(data) called when the clock reads now
ArrayToSqliteAt(a, now) == GzipCompress(ToBytes(a), now)

\* numpy.frombuffer(bytes, dtype=numpy.int32)
FromBuffer(bytes) ==
    IF Len(bytes) % 4 # 0 THEN Failure("ValueError")
    ELSE NoError([shape |-> <<Len(bytes) \div 4>>,
                  flat |-> [i \in 1..(Len(bytes) \div 4) |->
                               ElementValue(SubSeq(bytes, 4 * i - 3, 4 * i))]])

ReshapeTruncating(a, dim) ==
    NoError([shape |-> <<dim, 2>>, flat |-> SubSeq(a.flat, 1, 2 * dim)])

\* result.reshape((dim, 2))
Reshape(a, dim) ==
    IF dim * 2 # Len(a.flat) THEN Failure("ValueError")
    ELSE NoError([shape |-> <<dim, 2>>, flat |-> a.flat])

\* sqlite_to_array(data)
SqliteToArrayOf(blob) ==
    LET bytes == GzipDecompress(blob)
        flat == FromBuffer(bytes.value)
        dim == flat.value.shape[1] \div 2
    IN  IF bytes.err # "none" THEN bytes
        ELSE IF flat.err # "none" THEN flat
        ELSE Reshape(flat.value, dim)

---------------------------------------------------------------------------
(* The codec's inputs: interval arrays of shape (N, 2) over sample int32   *)
(* values, and blobs written by something else, which decompress to any    *)
(* number of bytes.                                                        *)

Int32Samples == {Int32Min, -1, 258, Int32Max}
RawByteSamples == {1, 255}

Arrays ==
    {[shape |-> <<n, 2>>, flat |-> f] :
        n \in 0..MaxRows, f \in SeqsUpTo(Int32Samples, 2 * MaxRows)}

IntervalArrays == {a \in Arrays : Len(a.flat) = 2 * a.shape[1]}

ForeignBlobs == {GzipCompress(b, 0) : b \in SeqsUpTo(RawByteSamples, MaxRawBytes)}

\* a blob whose trailer does not match its payload
DamagedBlob == [GzipCompress(<<1, 1, 1, 1, 1, 1, 1, 1>>, 0) EXCEPT !.isize = 4]

InitCodec ==
    /\ ParserIdle
    /\ StoreIdle
    /\ WriteIdle
    /\ clock = 0
    /\ blobs = <<>>
    /\ decoded = NotCalled
    /\ \/ array \in IntervalArrays /\ stored = NoBlob
       \/ array = NoArray /\ stored \in ForeignBlobs \cup {DamagedBlob}

\* array_to_sqlite(array), as the adapter does each time the array is written
ArrayToSqlite ==
    /\ array # NoArray
    /\ Len(blobs) < MaxEncodes
    /\ blobs' = Append(blobs, ArrayToSqliteAt(array, clock))
    /\ UNCHANGED <<array, clock, stored, decoded>>
    /\ UNCHANGED <<parserVars, storeVars, writeVars>>

\* a second passes
Tick ==
    /\ array # NoArray
    /\ clock < MaxClock
    /\ clock' = clock + 1
    /\ UNCHANGED <<array, blobs, stored, decoded>>
    /\ UNCHANGED <<parserVars, storeVars, writeVars>>

\* sqlite_to_array(blob), as the converter does when a cell is read back
SqliteToArray ==
    /\ decoded = NotCalled
    /\ \E blob \in (IF stored # NoBlob THEN {stored}
                    ELSE {blobs[i] : i \in 1..Len(blobs)}) :
        /\ stored' = blob
        /\ decoded' = SqliteToArrayOf(blob)
    /\ UNCHANGED <<array, clock, blobs>>
    /\ UNCHANGED <<parserVars, storeVars, writeVars>>

NextCodec ==
    \/ ArrayToSqlite
    \/ Tick
    \/ SqliteToArray

SpecCodec == InitCodec /\ [][NextCodec]_vars

---------------------------------------------------------------------------
(***************************************************************************)
(* The sqlite store mixin (src/src/ensembl_cli/_db_base.py, lines 38-157). *)
(* The model is one store object of a subclass that sets source and        *)
(* table_name and declares one schema attribute, _t_schema.  A database is *)
(* its committed content: for each table name, NoTable or the table's      *)
(* columns and rows in rowid order.  A connection is the record of the     *)
(* database it is on, whether it is open, whether a transaction is open on *)
(* it and the content that transaction has written so far.  An SQL         *)
(* statement is the record of its parts, not its text.                     *)
(*                                                                         *)
(* The sqlite3 module (Python 3.11, isolation_level "") opens a            *)
(* transaction by itself before a statement whose first keyword is INSERT, *)
(* UPDATE, DELETE or REPLACE; any other statement runs in autocommit mode  *)
(* when no transaction is open.  "with connection:" opens nothing: on exit *)
(* it commits, or rolls back after an exception, the open transaction.     *)
(***************************************************************************)

MaxRecords == 2       \* rows a table may hold
MaxConnections == 2   \* connections made during one run

MemorySource == ":memory:"
FileSource == "store.sqlite"

TableNames == {"t", "u"}
TableName == "t"                       \* the subclass's table_name
NoTable == [columns |-> <<>>, rows |-> <<>>, exists |-> FALSE]
EmptyContent == [n \in TableNames |-> NoTable]

\* the subclass's _t_schema attribute: its name split at "_", and its value
SchemaAttrs == << [attr |-> <<"", "t", "schema">>, columns |-> << <<"a", "INT NOT NULL">> >>] >>

Connection(i) == [tag |-> "Connection", id |-> i]

\* _make_table_sql(table_name, columns)
MakeTableSql(table_name, columns) ==
    [verb |-> "CREATE TABLE IF NOT EXISTS", table |-> table_name,
     columns |-> [i \in 1..Len(columns) |-> [name |-> columns[i][1], ctype |-> columns[i][2]]]]

\* k.lower()
Lower(k) == CASE k = "A" -> "a" [] k = "B" -> "b" [] OTHER -> k

\* _add_record_sql(table_name, data): the statement and the values to bind
AddRecordSql(table_name, record) ==
    [sql |-> [verb |-> "INSERT", conflict |-> "ABORT", table |-> table_name,
              cols |-> [i \in 1..Len(record) |-> Lower(record[i][1])],
              placeholders |-> Len(record)],
     values |-> [i \in 1..Len(record) |-> record[i][2]]]

\* num_records: the statement it builds
CountSql == [verb |-> "SELECT COUNT(*)", table |-> TableName]

---------------------------------------------------------------------------
(* sqlite: one statement run on the content its connection sees.  The      *)
(* result carries the content the statement leaves behind, which after an  *)
(* error is the content before it, except under OR FAIL, which keeps the   *)
(* rows written before the failing one.                                    *)

NotNull(ctype) == ctype = "INT NOT NULL"

ColumnNames(table) == {table.columns[i].name : i \in 1..Len(table.columns)}

\* the stored row for the given columns and values; columns not given are NULL
RowOf(table, cols, vals) ==
    [i \in 1..Len(table.columns) |->
        IF \E j \in 1..Len(cols) : cols[j] = table.columns[i].name
        THEN vals[CHOOSE j \in 1..Len(cols) : cols[j] = table.columns[i].name]
        ELSE NoneValue]

RowAllowed(table, row) ==
    \A i \in 1..Len(row) : NotNull(table.columns[i].ctype) => row[i] # NoneValue

RunResult(err, content, value) == [err |-> err, content |-> content, value |-> value]

RECURSIVE InsertRows(_, _, _, _)
InsertRows(content, name, cols, rows) ==
    IF rows = <<>> THEN RunResult("none", content, <<>>)
    ELSE LET table == content[name]
             row == RowOf(table, cols, Head(rows))
         IN  IF ~RowAllowed(table, row)
             THEN RunResult("IntegrityError", content, <<>>)
             ELSE InsertRows(
                     [content EXCEPT ![name].rows = Append(table.rows, row)],
                     name, cols, Tail(rows))

RunCreate(stmt, content) ==
    IF content[stmt.table].exists THEN RunResult("none", content, <<>>)
    ELSE RunResult("none",
                   [content EXCEPT ![stmt.table] =
                       [columns |-> stmt.columns, rows |-> <<>>, exists |-> TRUE]],
                   <<>>)

RunInsert(stmt, rows, content) ==
    IF ~content[stmt.table].exists
    THEN RunResult("OperationalError", content, <<>>)
    ELSE IF \E j \in 1..Len(stmt.cols) : stmt.cols[j] \notin ColumnNames(content[stmt.table])
    THEN RunResult("OperationalError", content, <<>>)
    ELSE LET done == InsertRows(content, stmt.table, stmt.cols, rows)
         IN  IF done.err = "none" \/ stmt.conflict = "FAIL" THEN done
             ELSE RunResult(done.err, content, <<>>)

RunCount(stmt, content) ==
    IF ~content[stmt.table].exists
    THEN RunResult("OperationalError", content, <<>>)
    ELSE RunResult("none", content, Len(content[stmt.table].rows))

\* the sqlite3 module's test for a statement that needs a transaction
IsDml(stmt) == stmt.verb \in {"INSERT", "UPDATE", "DELETE", "REPLACE"}

\* the rows an insert writes: its literal rows, or one row of bound values
BoundRows(stmt, values) ==
    IF stmt.placeholders = 0 THEN stmt.rows ELSE <<values>>

RunStatement(stmt, values, content) ==
    IF stmt.verb = "CREATE TABLE IF NOT EXISTS" THEN RunCreate(stmt, content)
    ELSE IF stmt.verb = "SELECT COUNT(*)" THEN RunCount(stmt, content)
    ELSE IF stmt.placeholders # Len(values)
    THEN RunResult("ProgrammingError", content, <<>>)
    ELSE RunInsert(stmt, BoundRows(stmt, values), content)

---------------------------------------------------------------------------
(* The calls of the mixin, on a world w of the store's _db, the            *)
(* connections made so far and the databases' committed content.           *)

World(d, c, b) == [db |-> d, connections |-> c, databases |-> b]

\* sqlite3.connect(self.source, ...): a file's connections share its database,
\* every connection to ":memory:" has a database of its own
Connect(w) ==
    World(Connection(Len(w.connections) + 1),
          Append(w.connections,
                 [database |-> IF source = MemorySource THEN Len(w.databases) + 1 ELSE 1,
                  open |-> TRUE, in_transaction |-> FALSE, work |-> <<>>]),
          IF source = MemorySource THEN Append(w.databases, EmptyContent) ELSE w.databases)

\* the db property
DbProperty(w) == IF w.db = NoneValue THEN Connect(w) ELSE w

Outcome(w, err, value) == [w |-> w, err |-> err, value |-> value]

\* cursor.execute(cmnd, values or []) on the store's connection
CursorExecute(w, stmt, values) ==
    LET c == w.db.id
        conn == w.connections[c]
        in_tx == conn.in_transaction \/ IsDml(stmt)
        seen == IF conn.in_transaction THEN conn.work ELSE w.databases[conn.database]
        run == RunStatement(stmt, values, seen)
    IN  IF ~conn.open THEN Outcome(w, "ProgrammingError", <<>>)
        ELSE IF in_tx
        THEN Outcome(World(w.db,
                           [w.connections EXCEPT ![c].in_transaction = TRUE,
                                                 ![c].work = run.content],
                           w.databases),
                     run.err, run.value)
        ELSE Outcome(World(w.db, w.connections,
                           [w.databases EXCEPT ![conn.database] = run.content]),
                     run.err, run.value)

\* connection.commit()
Commit(w) ==
    LET c == w.db.id
        conn == w.connections[c]
    IN  IF ~conn.open THEN Outcome(w, "ProgrammingError", <<>>)
        ELSE IF ~conn.in_transaction THEN Outcome(w, "none", <<>>)
        ELSE Outcome(World(w.db,
                           [w.connections EXCEPT ![c].in_transaction = FALSE,
                                                 ![c].work = <<>>],
                           [w.databases EXCEPT ![conn.database] = conn.work]),
                     "none", <<>>)

\* connection.rollback()
Rollback(w) ==
    LET c == w.db.id
        conn == w.connections[c]
    IN  IF ~conn.open THEN Outcome(w, "ProgrammingError", <<>>)
        ELSE Outcome(World(w.db,
                           [w.connections EXCEPT ![c].in_transaction = FALSE,
                                                 ![c].work = <<>>],
                           w.databases),
                     "none", <<>>)

\* leaving "with self.db:": commit, or roll back when the body raised
ExitWith(w, err) == IF err = "none" THEN Commit(w).w ELSE Rollback(w).w

\* _execute_sql(cmnd, values)
ExecuteSqlOn(w, stmt, values) ==
    LET opened == DbProperty(w)
        ran == CursorExecute(opened, stmt, values)
    IN  Outcome(ExitWith(ran.w, ran.err), ran.err, ran.value)

\* num_records()
NumRecordsOn(w) == ExecuteSqlOn(w, CountSql, <<>>)

\* attr.split("_")[1]
SchemaTable(schema) == schema.attr[2]

RECURSIVE CreateSchemas(_, _)
CreateSchemas(w, schemas) ==
    IF schemas = <<>> THEN Outcome(w, "none", NoneValue)
    ELSE LET made == ExecuteSqlOn(w, MakeTableSql(SchemaTable(Head(schemas)),
                                                  Head(schemas).columns), <<>>)
         IN  IF made.err # "none" THEN made
             ELSE CreateSchemas(made.w, Tail(schemas))

\* _init_tables(): connects whatever _db holds, then creates the schemas' tables
InitTablesOn(w) == CreateSchemas(Connect(w), SchemaAttrs)

\* close()
CloseOn(w) ==
    LET opened == DbProperty(w)
        committed == Commit(opened)
        c == opened.db.id
    IN  IF committed.err # "none" THEN Outcome(opened, committed.err, <<>>)
        ELSE Outcome(World(opened.db,
                           [committed.w.connections EXCEPT ![c].open = FALSE],
                           committed.w.databases),
                     "none", NoneValue)

---------------------------------------------------------------------------
(* The store's inputs, and what the run records about the calls made: the  *)
(* last call and its table, the tables created through the store, and the  *)
(* number of rows that successful statements wrote into table_name's       *)
(* table.  The table "u" is never created.                                 *)

Columns == << <<"a", "INT NOT NULL">> >>

Five == IntObject(5)

Records == { << <<"a", Five>> >>, << <<"A", Five>> >>, << <<"a", NoneValue>> >>, << <<"b", Five>> >> }

\* WITH x(v) AS (VALUES ...) INSERT OR FAIL INTO t (a) SELECT v FROM x
\* and    INSERT INTO t (a) VALUES ..., ...
Statements ==
    {[verb |-> v[1], conflict |-> v[2], table |-> TableName, cols |-> <<"a">>,
      placeholders |-> 0, rows |-> r] :
        v \in {<<"WITH ... INSERT", "FAIL">>, <<"INSERT", "ABORT">>},
        r \in {<< <<Five>>, <<Five>> >>, << <<Five>>, <<NoneValue>> >>}}

NoCalls == [call |-> "none", table |-> "none", created |-> {}, inserted |-> 0]

TheWorld == World(db, connections, databases)

WithinBounds(w) ==
    /\ Len(w.connections) <= MaxConnections
    /\ \A i \in 1..Len(w.databases) : \A n \in TableNames :
           Len(w.databases[i][n].rows) <= MaxRecords

\* the store takes the outcome of a call; the run records the call, the tables
\* it created and how many rows it wrote into table_name's table
Returns(out, call, table, created, inserted) ==
    /\ WithinBounds(out.w)
    /\ db' = out.w.db
    /\ connections' = out.w.connections
    /\ databases' = out.w.databases
    /\ result' = [err |-> out.err, value |-> out.value]
    /\ history' = [call |-> call, table |-> table,
                   created |-> history.created \cup created,
                   inserted |-> history.inserted + inserted]
    /\ UNCHANGED <<source, handles, compared>>
    /\ UNCHANGED <<parserVars, codecVars, writeVars>>

InitStore ==
    /\ ParserIdle
    /\ CodecIdle
    /\ WriteIdle
    /\ source \in {MemorySource, FileSource}
    /\ db = NoneValue
    /\ connections = <<>>
    /\ databases = (IF source = FileSource THEN <<EmptyContent>> ELSE <<>>)
    /\ history = NoCalls
    /\ result = NotCalled
    /\ handles = <<>>
    /\ compared = NotCalled

\* store.db, read by the owner or by __eq__
Db ==
    /\ source # "none"
    /\ Returns(Outcome(DbProperty(TheWorld), "none", <<>>), "db", "none", {}, 0)

\* _execute_sql(_make_table_sql(table_name, columns))
CreateTable ==
    /\ source # "none"
    /\ LET out == ExecuteSqlOn(TheWorld, MakeTableSql(TableName, Columns), <<>>)
       IN  Returns(out, "create", TableName,
                   IF out.err = "none" THEN {TableName} ELSE {}, 0)

\* _execute_sql(*_add_record_sql(name, record))
AddRecord ==
    /\ source # "none"
    /\ \E name \in TableNames, record \in Records :
        LET made == AddRecordSql(name, record)
            out == ExecuteSqlOn(TheWorld, made.sql, made.values)
        IN  Returns(out, "insert", name, {},
                    IF out.err = "none" /\ name = TableName THEN 1 ELSE 0)

\* num_records()
NumRecords ==
    /\ source # "none"
    /\ Returns(NumRecordsOn(TheWorld), "count", TableName, {}, 0)

\* _execute_sql(cmnd) with a statement of the caller's
ExecuteSql ==
    /\ source # "none"
    /\ \E stmt \in Statements :
        LET out == ExecuteSqlOn(TheWorld, stmt, <<>>)
        IN  Returns(out, "execute", stmt.table, {},
                    IF out.err = "none" THEN Len(stmt.rows) ELSE 0)

\* _init_tables()
InitTables ==
    /\ source # "none"
    /\ LET out == InitTablesOn(TheWorld)
       IN  Returns(out, "init_tables", "none",
                   IF out.err = "none"
                   THEN {SchemaTable(SchemaAttrs[i]) : i \in 1..Len(SchemaAttrs)}
                   ELSE {},
                   0)

\* close()
Close ==
    /\ source # "none"
    /\ Returns(CloseOn(TheWorld), "close", "none", {}, 0)

NextStore ==
    \/ Db
    \/ CreateTable
    \/ AddRecord
    \/ NumRecords
    \/ ExecuteSql
    \/ InitTables
    \/ Close

SpecStore == InitStore /\ [][NextStore]_vars

---------------------------------------------------------------------------
(***************************************************************************)
(* Equality of store objects (_db_base.py, lines 111-112).  A handle is    *)
(* the record of its class and its _db attribute.  Handles of the classes  *)
(* Store, its subclass SubStore and the unrelated OtherStore are made on   *)
(* the same source; the owner may give one handle's connection to another. *)
(***************************************************************************)

MaxHandles == 2       \* store objects that are compared

StoreClasses == {"Store", "SubStore", "OtherStore"}

\* issubclass(cls, base)
IsSubclass(cls, base) == cls = base \/ (cls = "SubStore" /\ base = "Store")

\* isinstance(other, self.__class__)
IsInstance(other, self) == IsSubclass(other.cls, self.cls)

\* the handles after handle i has read its db property
WithDb(hs, conns, dbs, i) ==
    LET w == DbProperty(World(hs[i].db, conns, dbs))
    IN  [handles |-> [hs EXCEPT ![i].db = w.db],
         connections |-> w.connections,
         databases |-> w.databases]

EqMethodByDatabase(hs, conns, dbs, self, other) ==
    IF ~IsInstance(hs[other], hs[self])
    THEN [value |-> FALSE, handles |-> hs, connections |-> conns, databases |-> dbs]
    ELSE LET first == WithDb(hs, conns, dbs, other)
             second == WithDb(first.handles, first.connections, first.databases, self)
         IN  [value |-> second.connections[second.handles[other].db.id].database
                          = second.connections[second.handles[self].db.id].database,
              handles |-> second.handles,
              connections |-> second.connections,
              databases |-> second.databases]

\* self.__eq__(other): isinstance(other, self.__class__) and other.db is self.db
EqMethod(hs, conns, dbs, self, other) ==
    IF ~IsInstance(hs[other], hs[self])
    THEN [value |-> FALSE, handles |-> hs, connections |-> conns, databases |-> dbs]
    ELSE LET first == WithDb(hs, conns, dbs, other)
             second == WithDb(first.handles, first.connections, first.databases, self)
         IN  [value |-> second.handles[other].db = second.handles[self].db,
              handles |-> second.handles,
              connections |-> second.connections,
              databases |-> second.databases]

\* left == right: Python tries the right operand's __eq__ first when its class
\* is a proper subclass of the left operand's class
Equals(hs, conns, dbs, left, right) ==
    IF hs[right].cls # hs[left].cls /\ IsSubclass(hs[right].cls, hs[left].cls)
    THEN EqMethod(hs, conns, dbs, right, left)
    ELSE EqMethod(hs, conns, dbs, left, right)

InitHandles ==
    /\ ParserIdle
    /\ CodecIdle
    /\ WriteIdle
    /\ source \in {MemorySource, FileSource}
    /\ db = NoneValue
    /\ connections = <<>>
    /\ databases = (IF source = FileSource THEN <<EmptyContent>> ELSE <<>>)
    /\ history = NoCalls
    /\ result = NotCalled
    /\ handles \in [1..MaxHandles -> [cls : StoreClasses, db : {NoneValue}]]
    /\ compared = NotCalled

\* handle.db, read by the owner
HandleDb ==
    /\ \E i \in 1..Len(handles) :
        LET w == WithDb(handles, connections, databases, i)
        IN  /\ Len(w.connections) <= MaxConnections
            /\ handles' = w.handles
            /\ connections' = w.connections
            /\ databases' = w.databases
    /\ compared' = NotCalled
    /\ UNCHANGED <<source, db, history, result>>
    /\ UNCHANGED <<parserVars, codecVars, writeVars>>

\* to._db = from.db: the owner gives one handle's connection to another
HandleShare ==
    /\ \E from_ \in 1..Len(handles), to \in 1..Len(handles) :
        /\ from_ # to
        /\ handles[from_].db # NoneValue
        /\ handles' = [handles EXCEPT ![to].db = handles[from_].db]
    /\ compared' = NotCalled
    /\ UNCHANGED <<source, db, connections, databases, history, result>>
    /\ UNCHANGED <<parserVars, codecVars, writeVars>>

\* handle.close()
HandleClose ==
    /\ \E i \in 1..Len(handles) :
        LET out == CloseOn(World(handles[i].db, connections, databases))
        IN  /\ Len(out.w.connections) <= MaxConnections
            /\ handles' = [handles EXCEPT ![i].db = out.w.db]
            /\ connections' = out.w.connections
            /\ databases' = out.w.databases
    /\ compared' = NotCalled
    /\ UNCHANGED <<source, db, history, result>>
    /\ UNCHANGED <<parserVars, codecVars, writeVars>>

\* left == right
HandleEq ==
    /\ \E left \in 1..Len(handles), right \in 1..Len(handles) :
        LET eq == Equals(handles, connections, databases, left, right)
        IN  /\ Len(eq.connections) <= MaxConnections
            /\ handles' = eq.handles
            /\ connections' = eq.connections
            /\ databases' = eq.databases
            /\ compared' = [err |-> "none",
                            value |-> [left |-> left, right |-> right, equal |-> eq.value]]
    /\ UNCHANGED <<source, db, history, result>>
    /\ UNCHANGED <<parserVars, codecVars, writeVars>>

NextHandles ==
    \/ HandleDb
    \/ HandleShare
    \/ HandleClose
    \/ HandleEq

SpecHandles == InitHandles /\ [][NextHandles]_vars

---------------------------------------------------------------------------
(***************************************************************************)
(* atomic_write (src/src/ensembl_cli/util.py, lines 259-355).  A path is   *)
(* the sequence of its components, each a str; the file system is the set  *)
(* of its directories and the content of its files, a sequence of bytes    *)
(* each.  Every file system call of __init__, the body and __exit__ is a   *)
(* step of its own, so that what another process sees of the destination   *)
(* between two calls is a state of the model.                              *)
(***************************************************************************)

MaxWrites == 2      \* write calls in the body of the with block

\* path.parent and path.name
Parent(path) == SubSeq(path, 1, Len(path) - 1)
Name(path) == path[Len(path)]

\* directory / name
Child(dir, name) == Append(dir, name)

\* path is dir or lies below it
Below(path, dir) == Len(path) >= Len(dir) /\ SubSeq(path, 1, Len(dir)) = dir

RECURSIVE LStripDots(_)
\* name.lstrip(".")
LStripDots(name) ==
    IF name # <<>> /\ name[1] = "." THEN LStripDots(Tail(name)) ELSE name

\* "".join(path.suffixes)
Suffixes(path) ==
    LET name == Name(path)
        stripped == LStripDots(name)
        p == FindChar(stripped, ".", 1)
    IN  IF name[Len(name)] = "." \/ p = 0 THEN <<>>
        ELSE SubSeq(stripped, p, Len(stripped))

IsDir(fsys, path) == path \in fsys.dirs
IsFile(fsys, path) == path \in DOMAIN fsys.files
Exists(fsys, path) == IsDir(fsys, path) \/ IsFile(fsys, path)

FsResult(e, fsys) == [err |-> e, fs |-> fsys]

\* open(path, "wb"): the file is created, or truncated, and is empty
OpenForWriting(fsys, path) ==
    IF ~IsDir(fsys, Parent(path)) THEN FsResult("FileNotFoundError", fsys)
    ELSE FsResult("none",
             [fsys EXCEPT !.files = [q \in DOMAIN fsys.files \cup {path} |->
                                        IF q = path THEN <<>> ELSE fsys.files[q]]])

\* fileobj.write(text) followed, at the latest on close, by the flush
WriteBytes(fsys, path, bytes) ==
    [fsys EXCEPT !.files[path] = fsys.files[path] \o bytes]

\* path.unlink()
Unlink(fsys, path) ==
    IF ~IsFile(fsys, path) THEN FsResult("FileNotFoundError", fsys)
    ELSE FsResult("none",
             [fsys EXCEPT !.files = [q \in DOMAIN fsys.files \ {path} |->
                                        fsys.files[q]]])

\* src.rename(dest): dest now names the file src named
Rename(fsys, src, dest) ==
    IF ~IsFile(fsys, src) \/ ~IsDir(fsys, Parent(dest))
    THEN FsResult("FileNotFoundError", fsys)
    ELSE FsResult("none",
             [fsys EXCEPT !.files = [q \in (DOMAIN fsys.files \ {src}) \cup {dest} |->
                                        IF q = dest THEN fsys.files[src]
                                        ELSE fsys.files[q]]])

RmtreeKeeping(fsys, dir) == FsResult("none", fsys)

\* shutil.rmtree(dir): the directory and everything below it
Rmtree(fsys, dir) ==
    IF ~IsDir(fsys, dir) THEN FsResult("FileNotFoundError", fsys)
    ELSE FsResult("none",
             [dirs |-> {q \in fsys.dirs : ~Below(q, dir)},
              files |-> [q \in {f \in DOMAIN fsys.files : ~Below(f, dir)} |->
                            fsys.files[q]]])

\* the names mkdtemp and uuid4 make up: new each time, so in no one's way
TmpDirName == <<"t", "m", "p">>
Uuid == <<"u">>

\* mkdtemp(dir=parent)
Mkdtemp(fsys, parent) ==
    IF ~IsDir(fsys, parent) THEN [err |-> "FileNotFoundError", fs |-> fsys, path |-> <<>>]
    ELSE [err |-> "none",
          fs |-> [fsys EXCEPT !.dirs = fsys.dirs \cup {Child(parent, TmpDirName)}],
          path |-> Child(parent, TmpDirName)]

\* self._make_tmppath(tmpdir)
MakeTmppath(fsys, path, tmpdir) ==
    LET name == Uuid \o Suffixes(path)
        made == IF tmpdir = NoneValue THEN Mkdtemp(fsys, Parent(path))
                ELSE [err |-> "none", fs |-> fsys, path |-> tmpdir.val]
    IN  IF made.err # "none" THEN made
        ELSE IF ~Exists(made.fs, made.path)
             THEN [err |-> "FileNotFoundError", fs |-> made.fs, path |-> <<>>]
             ELSE [made EXCEPT !.path = Child(made.path, name)]

---------------------------------------------------------------------------
(* The file systems atomic_write starts in: the destination's directory d  *)
(* and another directory g with a file of someone else's in it.  The       *)
(* destination is absent or holds an earlier download.                     *)

DestDir == << <<"d">> >>
OtherDir == << <<"g">> >>
MissingDir == << <<"x">> >>
OtherFile == Child(OtherDir, <<"o">>)

DestNames == { <<"f">>, <<"f", ".", "t", ".", "z">> }
OldBytes == <<7, 7, 7>>
Chunks == { <<1>>, <<2, 3>> }

PathObject(p) == [tag |-> "Path", val |-> p]

\* tmpdir: left out, or a directory the caller names
TmpdirArguments ==
    {NoneValue, PathObject(OtherDir), PathObject(DestDir), PathObject(MissingDir)}

StartFileSystems(dest) ==
    {[dirs |-> {DestDir, OtherDir}, files |-> fl] :
        fl \in {[q \in {OtherFile} |-> <<9>>],
                [q \in {OtherFile, dest} |-> IF q = dest THEN OldBytes ELSE <<9>>]}}

NoWriter ==
    [path |-> <<>>, tmpdir |-> NoneValue, tmppath |-> <<>>, file |-> "None",
     succeeded |-> "None"]

InitWrite ==
    /\ ParserIdle
    /\ CodecIdle
    /\ StoreIdle
    /\ \E name \in DestNames :
        /\ writer \in {[NoWriter EXCEPT !.path = Child(DestDir, name), !.tmpdir = t] :
                          t \in TmpdirArguments}
        /\ fs \in StartFileSystems(Child(DestDir, name))
    /\ previous = fs
    /\ wpc = "call"
    /\ written = <<>>
    /\ raised = "none"

\* atomic_write(path, tmpdir): __init__
Construct ==
    /\ wpc = "call"
    /\ LET made == MakeTmppath(fs, writer.path, writer.tmpdir)
       IN  /\ fs' = made.fs
           /\ raised' = made.err
           /\ IF made.err # "none"
              THEN wpc' = "done" /\ UNCHANGED writer
              ELSE /\ wpc' = "made"
                   /\ writer' = [writer EXCEPT !.tmppath = made.path]
    /\ UNCHANGED <<previous, written>>
    /\ UNCHANGED <<parserVars, codecVars, storeVars>>

\* __enter__: _get_fileobj opens the temporary file
Enter ==
    /\ wpc = "made"
    /\ LET opened == OpenForWriting(fs, writer.tmppath)
       IN  /\ fs' = opened.fs
           /\ raised' = opened.err
           /\ IF opened.err # "none"
              THEN wpc' = "done" /\ UNCHANGED writer
              ELSE wpc' = "body" /\ writer' = [writer EXCEPT !.file = "open"]
    /\ UNCHANGED <<previous, written>>
    /\ UNCHANGED <<parserVars, codecVars, storeVars>>

\* the body writes a chunk, as ftp.retrbinary does through outfile.write
Write ==
    /\ wpc = "body"
    /\ Len(written) < MaxWrites
    /\ \E chunk \in Chunks :
        /\ fs' = WriteBytes(fs, writer.tmppath, chunk)
        /\ written' = Append(written, chunk)
    /\ UNCHANGED <<writer, previous, wpc, raised>>
    /\ UNCHANGED <<parserVars, codecVars, storeVars>>

\* the body runs to its end: __exit__(None, None, None)
BodyCompletes ==
    /\ wpc = "body"
    /\ wpc' = "exit"
    /\ UNCHANGED <<fs, writer, previous, written, raised>>
    /\ UNCHANGED <<parserVars, codecVars, storeVars>>

\* the body raises: __exit__(exc_type, exc_val, exc_tb)
BodyRaises ==
    /\ wpc = "body"
    /\ wpc' = "exit"
    /\ raised' = "body"
    /\ UNCHANGED <<fs, writer, previous, written>>
    /\ UNCHANGED <<parserVars, codecVars, storeVars>>

\* __exit__: self._file.close(), then the branch on exc_type
ExitClose ==
    /\ wpc = "exit"
    /\ writer' = [writer EXCEPT !.file = "closed"]
    /\ wpc' = IF raised = "none" THEN "unlink" ELSE "flag"
    /\ UNCHANGED <<fs, previous, written, raised>>
    /\ UNCHANGED <<parserVars, codecVars, storeVars>>

\* _close_rename_standard: dest.unlink(), FileNotFoundError passed over
ExitUnlink ==
    /\ wpc = "unlink"
    /\ fs' = Unlink(fs, writer.path).fs
    /\ wpc' = "rename"
    /\ UNCHANGED <<writer, previous, written, raised>>
    /\ UNCHANGED <<parserVars, codecVars, storeVars>>

\* _close_rename_standard: src.rename(dest) in the finally clause
ExitRename ==
    /\ wpc = "rename"
    /\ LET renamed == Rename(fs, writer.tmppath, writer.path)
       IN  /\ fs' = renamed.fs
           /\ raised' = renamed.err
           /\ wpc' = IF renamed.err = "none" THEN "rmtree" ELSE "done"
    /\ UNCHANGED <<writer, previous, written>>
    /\ UNCHANGED <<parserVars, codecVars, storeVars>>

\* _close_rename_standard: shutil.rmtree(src.parent)
ExitRmtree ==
    /\ wpc = "rmtree"
    /\ LET removed == Rmtree(fs, Parent(writer.tmppath))
       IN  /\ fs' = removed.fs
           /\ raised' = removed.err
           /\ wpc' = IF removed.err = "none" THEN "flag" ELSE "done"
    /\ UNCHANGED <<writer, previous, written>>
    /\ UNCHANGED <<parserVars, codecVars, storeVars>>

\* __exit__: self.succeeded = True, or False when the body raised
ExitSucceeded ==
    /\ wpc = "flag"
    /\ writer' = [writer EXCEPT !.succeeded = IF raised = "none" THEN "True" ELSE "False"]
    /\ wpc' = "cleanup"
    /\ UNCHANGED <<fs, previous, written, raised>>
    /\ UNCHANGED <<parserVars, codecVars, storeVars>>

\* __exit__: shutil.rmtree(self._tmppath.parent, ignore_errors=True)
ExitCleanup ==
    /\ wpc = "cleanup"
    /\ fs' = Rmtree(fs, Parent(writer.tmppath)).fs
    /\ wpc' = "done"
    /\ UNCHANGED <<writer, previous, written, raised>>
    /\ UNCHANGED <<parserVars, codecVars, storeVars>>

NextWrite ==
    \/ Construct
    \/ Enter
    \/ Write
    \/ BodyCompletes
    \/ BodyRaises
    \/ ExitClose
    \/ ExitUnlink
    \/ ExitRename
    \/ ExitRmtree
    \/ ExitSucceeded
    \/ ExitCleanup

SpecWrite == InitWrite /\ [][NextWrite]_vars

---------------------------------------------------------------------------
(* Claims about the coordinate array codec, under SpecCodec.               *)

\* the round trip alone: what comes back from an array's own blob is the array
RoundTrip ==
    (array # NoArray /\ decoded # NotCalled) =>
        /\ decoded.err = "none"
        /\ decoded.value.shape = <<array.shape[1], 2>>
        /\ decoded.value.flat = array.flat

\* C16: for every (N, 2) array of 32-bit signed integers, N >= 0,
\* sqlite_to_array(array_to_sqlite(a)) has shape (N, 2) and the elements of a,
\* and every array_to_sqlite call on the same array returns the same blob.
C16_RoundTripAndSameBlob ==
    /\ RoundTrip
    /\ \A i, j \in 1..Len(blobs) : blobs[i] = blobs[j]

\* the number of bytes the blob handed to sqlite_to_array decompresses to
DecompressedCount == Len(GzipDecompress(stored).value)

\* C17: when the blob decompresses to a number of bytes that is not a multiple
\* of 8, sqlite_to_array raises and returns no array; when it is a multiple of
\* 8, the result has byte count / 8 rows, 2 columns and that many elements.
C17_DecodeNeedsWholeRows ==
    (decoded # NotCalled /\ GzipDecompress(stored).err = "none") =>
        /\ DecompressedCount % 8 # 0 =>
            decoded = Failure("ValueError")
        /\ DecompressedCount % 8 = 0 =>
            /\ decoded.err = "none"
            /\ decoded.value.shape = <<DecompressedCount \div 8, 2>>
            /\ Len(decoded.value.flat) = 2 * (DecompressedCount \div 8)

\* an odd number of whole int32 elements: frombuffer accepts it, reshape refuses
C17_Witness ==
    /\ decoded = Failure("ValueError")
    /\ GzipDecompress(stored).err = "none"
    /\ DecompressedCount % 8 = 4

---------------------------------------------------------------------------
(* Claims about the sqlite store, under SpecStore.                         *)

\* C18: when num_records() returns, it returns the number of records that were
\* successfully inserted into the table since it was created, whatever the
\* order of the inserts and of the repeated create-if-absent calls; counting, or
\* inserting into, a table that was never created raises and returns no count.
C18_CountIsInserted ==
    /\ (history.call = "count" /\ result.err = "none") =>
           result.value = history.inserted
    /\ (history.call \in {"count", "insert"} /\ history.table \notin history.created) =>
           result.err \in {"OperationalError", "ProgrammingError"}

\* the calls that are one _execute_sql call
ThroughExecuteSql == {"create", "insert", "count", "execute"}

\* the committed content of the database behind the store's connection
StoreContent == databases[connections[db.id].database]

\* C19: a statement run through _execute_sql runs in a transaction of its own:
\* when the call returns no transaction is left open; if the statement
\* succeeded its effect is in the committed content (the created table exists,
\* the inserted rows are there); if it raised, the call raised, and every
\* database holds the tables and rows it held before the call.
C19_OwnTransaction ==
    [][history'.call \in ThroughExecuteSql =>
        /\ \A i \in 1..Len(connections') : ~connections'[i].in_transaction
        /\ (result'.err = "none" /\ history'.call = "create") =>
               StoreContent'[history'.table].exists
        /\ (result'.err = "none" /\ history'.call \in {"insert", "execute"}) =>
               Len(StoreContent'[history'.table].rows)
                   = Len(databases[connections'[db'.id].database][history'.table].rows)
                       + (history'.inserted - history.inserted)
        /\ result'.err # "none" =>
               \A i \in 1..Len(databases') :
                   databases'[i] = (IF i <= Len(databases) THEN databases[i]
                                    ELSE EmptyContent)
    ]_vars

\* C20: the store holds no connection before its first call; the first call
\* that needs one opens one connection, and every later call, _init_tables
\* included, uses that one: no second connection is ever made; after close()
\* nothing is pending on that connection and it is closed.
C20_OneLazyConnection ==
    /\ history.call = "none" => (db = NoneValue /\ connections = <<>>)
    /\ history.call # "none" => db = Connection(1)
    /\ Len(connections) <= 1
    /\ (history.call = "close" /\ result.err = "none") =>
           /\ ~connections[db.id].open
           /\ ~connections[db.id].in_transaction

---------------------------------------------------------------------------
(* Claims about the order of the EMF parser's output, under Spec.          *)

\* the position of the k-th line that begins with "//"
NthEnd(k) == CHOOSE i \in EndLines : Cardinality({j \in EndLines : j <= i}) = k

\* the lines of the k-th "//"-terminated block: those after the previous "//"
\* line, or from the start of the file, up to the k-th "//" line
NthBlock(k) ==
    SubSeq(data, IF k = 1 THEN 1 ELSE NthEnd(k - 1) + 1, NthEnd(k) - 1)

\* the extraction result of the k-th block
Extracted(k) == GetBlockSeqnames(NthBlock(k))

\* the first block whose extraction fails, or one past the last block
FirstFailing ==
    CHOOSE f \in 1..(Cardinality(EndLines) + 1) :
        /\ \A k \in 1..(f - 1) : Extracted(k).err = "none"
        /\ f <= Cardinality(EndLines) => Extracted(f).err # "none"

\* C21: at every moment the values yielded so far are the extraction results
\* of the first blocks of the file, one per block and in input order, and none
\* of them is a block whose extraction fails or a block after it; the blocks
\* share no line; the generator ends normally only when every block has been
\* yielded, and ends with the error of the first failing block only when all
\* blocks before it have been yielded.
C21_BlocksInOrderUntilFailure ==
    (parser = "emf" /\ pc \in {"loop", "done", "failed"}
        /\ FormatCheck(check_format, data) = "none") =>
        /\ Len(yielded) < FirstFailing
        /\ \A k \in 1..Len(yielded) : yielded[k] = Extracted(k).value
        /\ \A k \in 1..Len(blocks) :
               /\ BlockLines(k) = NthBlock(k)
               /\ blocks[k][1] = (IF k = 1 THEN 0 ELSE blocks[k - 1][2] + 1)
        /\ pc = "done" =>
               /\ Len(yielded) = Cardinality(EndLines)
               /\ error = "none"
        /\ pc = "failed" =>
               /\ Len(yielded) = FirstFailing - 1
               /\ error = Extracted(FirstFailing).err

\* the second block's extraction fails after the first block was yielded
C21_Witness ==
    /\ parser = "emf"
    /\ pc = "failed"
    /\ FormatCheck(check_format, data) = "none"
    /\ Len(yielded) >= 1
    /\ FirstFailing < Cardinality(EndLines)

---------------------------------------------------------------------------
(* Claims about the equality of store objects, under SpecHandles.          *)

\* C22: a comparison of two handles gives True exactly when they are of the
\* same class and hold the very same connection object; in particular two
\* handles whose connections were opened separately are unequal, also when
\* both connections are on the same file.
C22_EqualIffSameConnection ==
    compared # NotCalled =>
        LET l == handles[compared.value.left]
            r == handles[compared.value.right]
        IN  /\ compared.value.equal <=>
                  (l.cls = r.cls /\ l.db # NoneValue /\ l.db = r.db)
            /\ (l.db # NoneValue /\ r.db # NoneValue /\ l.db # r.db) =>
                  ~compared.value.equal

\* two handles of one class on separately opened connections to the same file
\* were compared
C22_Witness ==
    /\ compared # NotCalled
    /\ source = FileSource
    /\ LET l == handles[compared.value.left]
           r == handles[compared.value.right]
       IN  /\ l.cls = r.cls
           /\ l.db # NoneValue /\ r.db # NoneValue /\ l.db # r.db
           /\ connections[l.db.id].database = connections[r.db.id].database

\* two distinct handles that hold one connection object compared equal
SharedConnectionEqual ==
    /\ compared # NotCalled
    /\ compared.value.left # compared.value.right
    /\ compared.value.equal


---------------------------------------------------------------------------
(* atomic_write and the destination path.                                  *)

\* what an observer of the destination path sees in a file system
Destination(fsys) ==
    IF IsFile(fsys, writer.path)
    THEN [there |-> TRUE, bytes |-> fsys.files[writer.path]]
    ELSE [there |-> FALSE, bytes |-> <<>>]

\* everything the body wrote
WrittenBytes == Flatten(written)

\* __exit__ has closed the file of a body that completed
InSuccessfulExit ==
    /\ wpc \in {"unlink", "rename", "rmtree", "flag", "cleanup", "done"}
    /\ writer.file = "closed"
    /\ raised = "none"

\* C23: at every step of a successful exit of atomic_write(path) the
\* destination is the complete previous file or the complete new file: it is
\* never missing when a file was there before, and never holds anything else.
C23_DestinationOldOrNew ==
    (InSuccessfulExit /\ writer.tmpdir = NoneValue) =>
        /\ Destination(previous).there => Destination(fs).there
        /\ Destination(fs).there =>
               \/ Destination(fs) = Destination(previous)
               \/ Destination(fs).bytes = WrittenBytes

\* nothing but the destination differs from the file system before the call
NoTemporaryLeft ==
    /\ ~Exists(fs, writer.tmppath)
    /\ ~Exists(fs, Parent(writer.tmppath))
    /\ fs.dirs = previous.dirs
    /\ DOMAIN fs.files \ {writer.path} = DOMAIN previous.files \ {writer.path}

\* C24: after `with atomic_write(path)`, if the body raised the destination is
\* as it was before (same bytes, or still absent), succeeded is False and the
\* temporary file and its directory are gone; if the body completed succeeded
\* is True, the destination holds exactly the bytes written and no temporary
\* file or directory remains.
C24_ExitLeavesOldOrNew ==
    (wpc = "done" /\ writer.file = "closed" /\ writer.tmpdir = NoneValue) =>
        /\ raised \in {"none", "body"}
        /\ raised = "body" =>
               /\ Destination(fs) = Destination(previous)
               /\ writer.succeeded = "False"
               /\ NoTemporaryLeft
        /\ raised = "none" =>
               /\ writer.succeeded = "True"
               /\ Destination(fs) = [there |-> TRUE, bytes |-> WrittenBytes]
               /\ NoTemporaryLeft

\* the body raised after it had written over an earlier download's name
C24_Witness ==
    /\ wpc = "done"
    /\ writer.file = "closed"
    /\ writer.tmpdir = NoneValue
    /\ raised = "body"
    /\ written # <<>>
    /\ Destination(previous).there

\* the body completed and the new bytes replaced the earlier file
ReplacedEarlierFile ==
    /\ wpc = "done"
    /\ writer.tmpdir = NoneValue
    /\ raised = "none"
    /\ Destination(previous).there
    /\ Destination(fs).bytes = WrittenBytes
    /\ WrittenBytes # Destination(previous).bytes

\* a directory the caller named as tmpdir is removed with all it held
TmpdirArgumentRemoved ==
    (wpc = "done" /\ writer.file = "closed" /\ writer.tmpdir # NoneValue) =>
        /\ ~IsDir(fs, writer.tmpdir.val)
        /\ \A f \in DOMAIN fs.files : ~Below(f, writer.tmpdir.val)

\* the temporary file takes the destination's suffixes
TmppathKeepsSuffixes ==
    wpc \notin {"idle", "call"} /\ writer.tmppath # <<>> =>
        Name(writer.tmppath) = Uuid \o Suffixes(writer.path)

===========================================================================
